---- MODULE Spec2Model ----
(***************************************************************************)
(* Model of computeSales.py: the catalogue normaliser, the field           *)
(* extractors, the record validator, the sales aggregator and the main     *)
(* flow (ejecutar).                                                        *)
(*                                                                         *)
(* Representation of Python values (what json.load can produce):           *)
(*   None            [t |-> "none"]   (also what dict.get gives for a      *)
(*                                     missing key)                        *)
(*   bool            [t |-> "bool", b |-> TRUE]                            *)
(*   int             [t |-> "int", n |-> 5]                                *)
(*   float           [t |-> "float", c |-> 250]   the value in hundredths  *)
(*   str             [t |-> "str", s |-> <<"a", "b">>]  one entry per char *)
(*   list            [t |-> "list", items |-> <<...>>]                     *)
(*   dict            [t |-> "dict", d |-> [key |-> value, ...]]            *)
(* A raised exception is [t |-> "raise", exc |-> "KeyError"].               *)
(* Message texts are those of the program, written in ASCII: an accented   *)
(* letter is written without its accent.                                   *)
(***************************************************************************)
EXTENDS Integers, Sequences, FiniteSets, TLC

VARIABLES
    pc,             \* position in the flow being explored
    entrada,        \* argument of the pure function under study
    salida,         \* what that function returned (or raised)
    catalogo_json,  \* parsed catalogue file
    ventas_json,    \* parsed sales file
    precios,        \* dict title -> unit price (hundredths)
    advertencias,   \* catalogue warnings
    idx,            \* enumerate(..., start=1) index of the running loop
    lineas,         \* report lines accumulated by procesar_ventas
    errores,        \* list of ErrorRegistro
    total_general,  \* running total (hundredths)
    validos,
    invalidos,
    resultado,      \* what procesar_ventas returned (or raised)
    archivo,        \* content written to results/SalesResultsN.txt
    codigo          \* return code of ejecutar

vars == <<pc, entrada, salida, catalogo_json, ventas_json, precios,
          advertencias, idx, lineas, errores, total_general, validos,
          invalidos, resultado, archivo, codigo>>

----------------------------------------------------------------------------
(* Bounds of the exploration *)

MaxStrLen == 3
MaxEntero == 3
MaxCat == 2
MaxVentas == 3

----------------------------------------------------------------------------
(* Python values *)

PyNone == [t |-> "none"]
PyBool(b) == [t |-> "bool", b |-> b]
PyInteger(n) == [t |-> "int", n |-> n]
PyFloat(c) == [t |-> "float", c |-> c]
PyString(s) == [t |-> "str", s |-> s]
PyList(items) == [t |-> "list", items |-> items]
PyDict(d) == [t |-> "dict", d |-> d]
Raise(exc) == [t |-> "raise", exc |-> exc]

IsRaise(v) == v.t = "raise"

\* dict.get(key): the value, None when the key is missing
Get(dict, key) == IF key \in DOMAIN dict.d THEN dict.d[key] ELSE PyNone

\* dict[key]: the value, KeyError when the key is missing
Item(dict, key) == IF key \in DOMAIN dict.d THEN dict.d[key] ELSE Raise("KeyError")

----------------------------------------------------------------------------
(* Python str methods, on sequences of characters *)

Whitespace == {" "}
DecimalDigits == {"0", "1", "2", "3", "4", "5", "6", "7", "8", "9"}
\* characters str.isdigit accepts but int() does not; "sup2" stands for the
\* single character U+00B2 (SUPERSCRIPT TWO)
OtherDigits == {"sup2"}

RECURSIVE lstrip(_)
lstrip(s) ==
    IF s # <<>> /\ Head(s) \in Whitespace THEN lstrip(Tail(s)) ELSE s

RECURSIVE rstrip(_)
rstrip(s) ==
    IF s # <<>> /\ s[Len(s)] \in Whitespace
    THEN rstrip(SubSeq(s, 1, Len(s) - 1))
    ELSE s

strip(s) == rstrip(lstrip(s))

isdigit(s) ==
    /\ s # <<>>
    /\ \A i \in 1..Len(s) : s[i] \in DecimalDigits \cup OtherDigits

DigitVal(c) ==
    CASE c = "0" -> 0 [] c = "1" -> 1 [] c = "2" -> 2 [] c = "3" -> 3
      [] c = "4" -> 4 [] c = "5" -> 5 [] c = "6" -> 6 [] c = "7" -> 7
      [] c = "8" -> 8 [] c = "9" -> 9

RECURSIVE DecimalValue(_)
DecimalValue(s) ==
    IF s = <<>> THEN 0
    ELSE 10 * DecimalValue(SubSeq(s, 1, Len(s) - 1)) + DigitVal(s[Len(s)])

AllDecimal(s) == s # <<>> /\ \A i \in 1..Len(s) : s[i] \in DecimalDigits

\* int(text): surrounding whitespace and one sign are allowed, then decimal
\* digits only; anything else is a ValueError
IntOfStr(s) ==
    LET t == strip(s)
        signed == t # <<>> /\ Head(t) \in {"-", "+"}
        body == IF signed THEN Tail(t) ELSE t
    IN  IF AllDecimal(body)
        THEN PyInteger(IF signed /\ Head(t) = "-"
                       THEN 0 - DecimalValue(body) ELSE DecimalValue(body))
        ELSE Raise("ValueError")

\* int(value)
PyInt(v) ==
    CASE v.t = "int" -> v
      [] v.t = "bool" -> PyInteger(IF v.b THEN 1 ELSE 0)
      [] v.t = "float" -> PyInteger(IF v.c >= 0 THEN v.c \div 100
                                    ELSE 0 - ((0 - v.c) \div 100))
      [] v.t = "str" -> IntOfStr(v.s)
      [] OTHER -> Raise("TypeError")

RECURSIVE NatChars(_)
NatChars(n) ==
    LET d == n % 10
        c == CHOOSE x \in DecimalDigits : DigitVal(x) = d
    IN  IF n < 10 THEN <<c>> ELSE Append(NatChars(n \div 10), c)

IntChars(n) == IF n < 0 THEN <<"-">> \o NatChars(0 - n) ELSE NatChars(n)

\* str(value), for the value types a validated field can hold
PyStr(v) ==
    CASE v.t = "str" -> v.s
      [] v.t = "int" -> IntChars(v.n)
      [] v.t = "bool" -> IF v.b THEN <<"T", "r", "u", "e">>
                         ELSE <<"F", "a", "l", "s", "e">>
      [] OTHER -> <<"N", "o", "n", "e">>

\* the characters as one piece of text
RECURSIVE Flat(_)
Flat(s) == IF s = <<>> THEN "" ELSE Head(s) \o Flat(Tail(s))

----------------------------------------------------------------------------
(* Field extractors *)

obtener_str(registro, clave) ==
    LET valor == Get(registro, clave)
    IN  IF valor.t = "str" /\ strip(valor.s) # <<>>
        THEN PyString(strip(valor.s))
        ELSE PyNone

obtener_int(registro, clave) ==
    LET valor == Get(registro, clave)
    IN  IF valor.t = "bool" THEN PyNone
        ELSE IF valor.t = "int" THEN valor
        ELSE IF valor.t = "str" /\ isdigit(strip(valor.s))
             THEN IntOfStr(strip(valor.s))
        ELSE PyNone

----------------------------------------------------------------------------
(* Constants of the program and formatting *)

SeparatorWidth == 72

RECURSIVE Repeat(_, _)
Repeat(text, n) == IF n = 0 THEN "" ELSE text \o Repeat(text, n - 1)

SEPARATOR_LINE == Repeat("-", SeparatorWidth)
TABLE_HEADER == "SALE_ID | SALE_Date | Product | Quantity | Unit Price | Line Total"

\* "sep".join(parts)
RECURSIVE Join(_, _)
Join(sep, parts) ==
    IF parts = <<>> THEN ""
    ELSE IF Len(parts) = 1 THEN parts[1]
    ELSE parts[1] \o sep \o Join(sep, Tail(parts))

\* digits of n in groups of three separated by commas
RECURSIVE Grouped(_)
Grouped(n) ==
    IF n < 1000 THEN ToString(n)
    ELSE LET r == n % 1000
             pad == IF r < 10 THEN "00" ELSE IF r < 100 THEN "0" ELSE ""
         IN  Grouped(n \div 1000) \o "," \o pad \o ToString(r)

\* f"{valor:,.2f}" of a value held in hundredths
formatear_moneda(valor) ==
    LET a == IF valor < 0 THEN 0 - valor ELSE valor
        frac == a % 100
    IN  (IF valor < 0 THEN "-" ELSE "") \o Grouped(a \div 100) \o "."
        \o (IF frac < 10 THEN "0" ELSE "") \o ToString(frac)

\* float(value) of a catalogue price, in hundredths; bool is an int in Python
PyFloatOf(v) ==
    CASE v.t = "float" -> v.c
      [] v.t = "int" -> 100 * v.n
      [] v.t = "bool" -> IF v.b THEN 100 ELSE 0

\* isinstance(value, (int, float)): True for bool too, a subclass of int
IsIntOrFloat(v) == v.t \in {"int", "float", "bool"}

----------------------------------------------------------------------------
(* construir_catalogo_precios *)

\* precios[key] = value, overwriting
DictSet(dict, key, value) ==
    [k \in DOMAIN dict \cup {key} |-> IF k = key THEN value ELSE dict[k]]

EmptyDict == [k \in {} |-> 0]

\* mutant of CatalogoPaso: a title already in the lookup keeps its first price
CatalogoPaso_PrimeroGana(st, i, item) ==
    LET titulo == Get(item, "title")
        precio == Get(item, "price")
    IN  IF item.t # "dict"
        THEN [st EXCEPT !.advertencias = Append(@, "no es un objeto JSON")]
        ELSE IF ~(titulo.t = "str") \/ strip(titulo.s) = <<>>
        THEN [st EXCEPT !.advertencias = Append(@, "no tiene 'title'")]
        ELSE IF ~IsIntOrFloat(precio)
        THEN [st EXCEPT !.advertencias = Append(@, "no tiene 'price'")]
        ELSE IF strip(titulo.s) \in DOMAIN st.precios THEN st
        ELSE [st EXCEPT !.precios = DictSet(@, strip(titulo.s), PyFloatOf(precio))]

\* one iteration of the loop over the catalogue: st is (precios, advertencias)
CatalogoPaso(st, i, item) ==
    LET titulo == Get(item, "title")
        precio == Get(item, "price")
    IN  IF item.t # "dict"
        THEN [st EXCEPT !.advertencias = Append(@,
                "Catalogo: elemento #" \o ToString(i) \o " no es un objeto JSON.")]
        ELSE IF ~(titulo.t = "str") \/ strip(titulo.s) = <<>>
        THEN [st EXCEPT !.advertencias = Append(@,
                "Catalogo: elemento #" \o ToString(i)
                    \o " no tiene 'title' valido (string).")]
        ELSE IF ~IsIntOrFloat(precio)
        THEN [st EXCEPT !.advertencias = Append(@,
                "Catalogo: '" \o Flat(titulo.s)
                    \o "' no tiene 'price' numerico valido.")]
        ELSE [st EXCEPT !.precios = DictSet(@, strip(titulo.s), PyFloatOf(precio))]

RECURSIVE CatalogoBucle(_, _, _)
CatalogoBucle(st, i, items) ==
    IF i > Len(items) THEN st
    ELSE CatalogoBucle(CatalogoPaso(st, i, items[i]), i + 1, items)

construir_catalogo_precios(catalogo) ==
    IF catalogo.t # "list"
    THEN [precios |-> EmptyDict,
          advertencias |->
            <<"El catalogo no es una lista. Se esperaba una lista de productos.">>]
    ELSE CatalogoBucle([precios |-> EmptyDict, advertencias |-> <<>>], 1,
                       catalogo.items)

----------------------------------------------------------------------------
(* validar_registro_venta *)

Cuando(cond, problema) == IF cond THEN <<problema>> ELSE <<>>

validar_registro_venta(indice, raw, tabla) ==
    IF raw.t # "dict"
    THEN [t |-> "ret", registro |-> PyNone,
          problemas |-> <<"Registro no es un objeto JSON (dict).">>]
    ELSE
    LET sale_id == obtener_int(raw, "SALE_ID")
        sale_date == obtener_str(raw, "SALE_Date")
        producto == obtener_str(raw, "Product")
        cantidad == obtener_int(raw, "Quantity")
    IN  IF IsRaise(sale_id) THEN sale_id
        ELSE IF IsRaise(cantidad) THEN cantidad
        ELSE [t |-> "ret", registro |-> raw,
              problemas |->
                   Cuando(sale_id = PyNone, "SALE_ID invalido o faltante")
                \o Cuando(sale_date = PyNone, "SALE_Date invalido o faltante")
                \o Cuando(producto = PyNone, "Product invalido o faltante")
                \o Cuando(cantidad = PyNone, "Quantity invalido o faltante")
                \o Cuando(cantidad # PyNone /\ cantidad.n < 0,
                          "Quantity no puede ser negativa")
                \o Cuando(producto # PyNone /\ producto.s \notin DOMAIN tabla,
                          "Producto no existe en catalogo: '"
                              \o Flat(producto.s) \o "'")]

----------------------------------------------------------------------------
(* crear_linea_tabla and the body of the loop of procesar_ventas *)

\* mutant of crear_linea_tabla: the line total ignores the quantity
crear_linea_tabla_SinCantidad(sale_id, sale_date, producto, cantidad, precio_unitario) ==
    [linea |-> Flat(IntChars(sale_id)) \o " | " \o Flat(sale_date) \o " | "
               \o Flat(producto) \o " | " \o Flat(IntChars(cantidad)) \o " | "
               \o formatear_moneda(precio_unitario) \o " | "
               \o formatear_moneda(precio_unitario),
     total_linea |-> precio_unitario]

crear_linea_tabla(sale_id, sale_date, producto, cantidad, precio_unitario) ==
    LET total_linea == precio_unitario * cantidad
    IN  [linea |-> Flat(IntChars(sale_id)) \o " | " \o Flat(sale_date) \o " | "
                   \o Flat(producto) \o " | " \o Flat(IntChars(cantidad)) \o " | "
                   \o formatear_moneda(precio_unitario) \o " | "
                   \o formatear_moneda(total_linea),
         total_linea |-> total_linea]

\* lines 235-247: the fields are read again from the record validation returned
\* (the raw record); the first exception raised ends the evaluation
ExtraerVenta(registro, tabla) ==
    LET sale_id == IF IsRaise(Item(registro, "SALE_ID"))
                   THEN Item(registro, "SALE_ID")
                   ELSE PyInt(Item(registro, "SALE_ID"))
        sale_date == IF IsRaise(Item(registro, "SALE_Date"))
                     THEN Item(registro, "SALE_Date")
                     ELSE PyString(PyStr(Item(registro, "SALE_Date")))
        producto == IF IsRaise(Item(registro, "Product"))
                    THEN Item(registro, "Product")
                    ELSE PyString(PyStr(Item(registro, "Product")))
        cantidad == IF IsRaise(Item(registro, "Quantity"))
                    THEN Item(registro, "Quantity")
                    ELSE PyInt(Item(registro, "Quantity"))
    IN  IF IsRaise(sale_id) THEN sale_id
        ELSE IF IsRaise(sale_date) THEN sale_date
        ELSE IF IsRaise(producto) THEN producto
        ELSE IF IsRaise(cantidad) THEN cantidad
        ELSE IF producto.s \notin DOMAIN tabla THEN Raise("KeyError")
        ELSE [t |-> "venta", sale_id |-> sale_id.n, sale_date |-> sale_date.s,
              producto |-> producto.s, cantidad |-> cantidad.n,
              precio_unitario |-> tabla[producto.s]]

\* what one iteration does with record raw: "invalido", "valido" or "raise"
ProcesarRegistro(i, raw, tabla) ==
    LET v == validar_registro_venta(i, raw, tabla)
    IN  IF IsRaise(v) THEN v
        ELSE IF v.problemas # <<>>
        THEN [t |-> "invalido",
              error |-> [indice |-> i, mensaje |-> Join("; ", v.problemas)]]
        ELSE LET e == ExtraerVenta(v.registro, tabla)
             IN  IF IsRaise(e) THEN e
                 ELSE [t |-> "valido", venta |-> e,
                       fila |-> crear_linea_tabla(e.sale_id, e.sale_date,
                                    e.producto, e.cantidad, e.precio_unitario)]

construir_bloque_advertencias(avisos) ==
    IF avisos = <<>> THEN ""
    ELSE Join("\n", <<"Advertencias del catalogo (no fatales):", SEPARATOR_LINE>>
                    \o [i \in 1..Len(avisos) |-> "- " \o avisos[i]]
                    \o <<"">>)

REPORTE_ERROR ==
    "ERROR: El archivo de ventas no contiene una lista de registros.\n"
        \o "No se puede procesar.\n"

----------------------------------------------------------------------------
(* Inputs *)

SeqsUpTo(S, n) == UNION {[1..k -> S] : k \in 0..n}

Str(s) == PyString(s)

\* a dict built from fields; a field given as Falta is a missing key
Falta == [t |-> "falta"]
Dict(campos) ==
    PyDict([k \in {c \in DOMAIN campos : campos[c] # Falta} |-> campos[k]])

Reposo ==
    /\ precios = EmptyDict /\ advertencias = <<>> /\ idx = 0
    /\ lineas = <<>> /\ errores = <<>> /\ total_general = 0
    /\ validos = 0 /\ invalidos = 0
    /\ resultado = PyNone /\ archivo = PyNone /\ codigo = PyNone

----------------------------------------------------------------------------
(* SpecInt: obtener_int applied to one field *)

CharsInt == {"5", "1", " ", "-", ".", "a", "sup2"}

ValoresInt ==
    {Falta, PyNone, PyBool(TRUE), PyBool(FALSE), PyFloat(500), PyFloat(550),
     PyList(<<>>), PyDict(EmptyDict)}
    \cup {PyInteger(n) : n \in -1..MaxEntero}
    \cup {Str(s) : s \in SeqsUpTo(CharsInt, MaxStrLen)}

InitInt ==
    /\ pc = "int_llamada"
    /\ entrada \in {Dict([Quantity |-> v]) : v \in ValoresInt}
    /\ salida = PyNone
    /\ catalogo_json = PyNone /\ ventas_json = PyNone
    /\ Reposo

ObtenerIntLlamada ==
    /\ pc = "int_llamada"
    /\ salida' = obtener_int(entrada, "Quantity")
    /\ pc' = "int_fin"
    /\ UNCHANGED <<entrada, catalogo_json, ventas_json, precios, advertencias,
                   idx, lineas, errores, total_general, validos, invalidos,
                   resultado, archivo, codigo>>

NextInt == ObtenerIntLlamada

SpecInt == InitInt /\ [][NextInt]_vars

----------------------------------------------------------------------------
(* SpecVal: validar_registro_venta applied to one record *)

TablasVal ==
    {EmptyDict,
     DictSet(EmptyDict, <<"W">>, 1000),
     DictSet(DictSet(EmptyDict, <<"W">>, 1000), <<"U">>, 250)}

RegistrosVal ==
    {Dict([SALE_ID |-> a, SALE_Date |-> b, Product |-> c, Quantity |-> d]) :
        a \in {Falta, PyInteger(1), Str(<<" ", "7">>), PyBool(TRUE), Str(<<"sup2">>)},
        b \in {Falta, Str(<<"d">>), Str(<<" ", "d", " ">>), Str(<<" ">>),
               PyInteger(5)},
        c \in {Falta, Str(<<"W">>), Str(<<" ", "W">>), Str(<<"U">>), Str(<<" ">>)},
        d \in {Falta, PyInteger(3), PyInteger(-1), Str(<<"5">>),
               Str(<<"5", ".", "5">>), Str(<<"-", "1">>), PyBool(TRUE),
               PyFloat(500), Str(<<"sup2">>)}}
    \cup {PyNone, PyInteger(1), Str(<<"W">>), PyList(<<>>)}

InitVal ==
    /\ pc = "val_llamada"
    /\ entrada \in {[raw |-> r, precios |-> t] : r \in RegistrosVal, t \in TablasVal}
    /\ salida = PyNone
    /\ catalogo_json = PyNone /\ ventas_json = PyNone
    /\ Reposo

ValidarLlamada ==
    /\ pc = "val_llamada"
    /\ salida' = validar_registro_venta(1, entrada.raw, entrada.precios)
    /\ pc' = "val_fin"
    /\ UNCHANGED <<entrada, catalogo_json, ventas_json, precios, advertencias,
                   idx, lineas, errores, total_general, validos, invalidos,
                   resultado, archivo, codigo>>

NextVal == ValidarLlamada

SpecVal == InitVal /\ [][NextVal]_vars

----------------------------------------------------------------------------
(* SpecCat: construir_catalogo_precios, one loop iteration per step *)

TitulosCat == {Falta, Str(<<"W">>), Str(<<" ", "W", " ">>), Str(<<"U">>),
               Str(<<" ">>), PyInteger(5)}
PreciosCat == {Falta, PyInteger(10), PyInteger(20), PyFloat(250), PyBool(TRUE),
               Str(<<"1", "0">>)}

ElementosCat ==
    {Dict([title |-> a, price |-> b]) : a \in TitulosCat, b \in PreciosCat}
    \cup {Str(<<"W">>)}

CatalogosCat ==
    {PyList(items) : items \in SeqsUpTo(ElementosCat, MaxCat)}
    \cup {PyDict(EmptyDict)}

InitCat ==
    /\ pc = "cat_inicio"
    /\ catalogo_json \in CatalogosCat
    /\ entrada = PyNone /\ salida = PyNone /\ ventas_json = PyNone
    /\ Reposo

\* lines 70-74
CatalogoNoLista ==
    /\ pc = "cat_inicio"
    /\ catalogo_json.t # "list"
    /\ advertencias' =
         <<"El catalogo no es una lista. Se esperaba una lista de productos.">>
    /\ salida' = [t |-> "ret", precios |-> precios, advertencias |-> advertencias']
    /\ pc' = "cat_fin"
    /\ UNCHANGED <<entrada, catalogo_json, ventas_json, precios, idx, lineas,
                   errores, total_general, validos, invalidos, resultado,
                   archivo, codigo>>

\* line 76, entering the loop
CatalogoEntrar ==
    /\ pc = "cat_inicio"
    /\ catalogo_json.t = "list"
    /\ idx' = 1
    /\ pc' = "cat_bucle"
    /\ UNCHANGED <<entrada, salida, catalogo_json, ventas_json, precios,
                   advertencias, lineas, errores, total_general, validos,
                   invalidos, resultado, archivo, codigo>>

\* lines 76-96, one element
CatalogoElemento ==
    /\ pc = "cat_bucle"
    /\ idx <= Len(catalogo_json.items)
    /\ LET st == CatalogoPaso([precios |-> precios, advertencias |-> advertencias],
                              idx, catalogo_json.items[idx])
       IN  /\ precios' = st.precios
           /\ advertencias' = st.advertencias
    /\ idx' = idx + 1
    /\ UNCHANGED <<pc, entrada, salida, catalogo_json, ventas_json, lineas,
                   errores, total_general, validos, invalidos, resultado,
                   archivo, codigo>>

\* line 98
CatalogoRetorno ==
    /\ pc = "cat_bucle"
    /\ idx > Len(catalogo_json.items)
    /\ salida' = [t |-> "ret", precios |-> precios, advertencias |-> advertencias]
    /\ pc' = "cat_fin"
    /\ UNCHANGED <<entrada, catalogo_json, ventas_json, precios, advertencias,
                   idx, lineas, errores, total_general, validos, invalidos,
                   resultado, archivo, codigo>>

NextCat ==
    \/ CatalogoNoLista
    \/ CatalogoEntrar
    \/ CatalogoElemento
    \/ CatalogoRetorno

SpecCat == InitCat /\ [][NextCat]_vars

----------------------------------------------------------------------------
(* Spec: ejecutar, with procesar_ventas one loop iteration per step *)

ElementosEj ==
    {Dict([title |-> Str(<<"W">>), price |-> PyInteger(10)]),
     Dict([title |-> Str(<<"U">>), price |-> PyFloat(250)])}

CatalogosEj ==
    {PyList(items) : items \in SeqsUpTo(ElementosEj, 1)}
    \cup {PyList(<<Dict([title |-> Str(<<"W">>), price |-> PyInteger(10)]),
                    Dict([title |-> Str(<<"U">>), price |-> PyFloat(250)])>>),
          PyList(<<Dict([title |-> Str(<<"W">>), price |-> Falta])>>),
          PyDict(EmptyDict)}

RegistrosEj ==
    {Dict([SALE_ID |-> PyInteger(1), SALE_Date |-> Str(<<"d">>),
           Product |-> Str(<<"W">>), Quantity |-> PyInteger(3)]),
     Dict([SALE_ID |-> Str(<<"2">>), SALE_Date |-> Str(<<" ", "d">>),
           Product |-> Str(<<"W">>), Quantity |-> Str(<<" ", "2">>)]),
     Dict([SALE_ID |-> PyInteger(3), SALE_Date |-> Str(<<"d">>),
           Product |-> Str(<<" ", "W">>), Quantity |-> PyInteger(1)]),
     Dict([SALE_ID |-> PyInteger(4), SALE_Date |-> Str(<<"d">>),
           Product |-> Str(<<"U">>), Quantity |-> PyInteger(1)]),
     Dict([SALE_ID |-> Falta, SALE_Date |-> Str(<<"d">>),
           Product |-> Str(<<"W">>), Quantity |-> PyInteger(-1)]),
     Dict([SALE_ID |-> PyInteger(6), SALE_Date |-> Str(<<"d">>),
           Product |-> Str(<<"W">>), Quantity |-> Str(<<"sup2">>)]),
     Str(<<"W">>)}

VentasEj ==
    {PyList(items) : items \in SeqsUpTo(RegistrosEj, MaxVentas)}
    \cup {PyDict(EmptyDict), PyNone}

Init ==
    /\ pc = "inicio"
    /\ catalogo_json \in CatalogosEj
    /\ ventas_json \in VentasEj
    /\ entrada = PyNone /\ salida = PyNone
    /\ Reposo

\* lines 329-332: wrong number of arguments
EjecutarUso ==
    /\ pc = "inicio"
    /\ codigo' = PyInteger(1)
    /\ pc' = "fin"
    /\ UNCHANGED <<entrada, salida, catalogo_json, ventas_json, precios,
                   advertencias, idx, lineas, errores, total_general, validos,
                   invalidos, resultado, archivo>>

\* lines 337-345: a file is missing or is not JSON
EjecutarCargaFalla ==
    /\ pc = "inicio"
    /\ \E exc \in {"FileNotFoundError", "JSONDecodeError"} :
          salida' = Raise(exc)
    /\ codigo' = PyInteger(1)
    /\ pc' = "fin"
    /\ UNCHANGED <<entrada, catalogo_json, ventas_json, precios, advertencias,
                   idx, lineas, errores, total_general, validos, invalidos,
                   resultado, archivo>>

\* lines 347-349, os.makedirs raising: nothing catches it
EjecutarCarpetaFalla ==
    /\ pc = "inicio"
    /\ LET st == construir_catalogo_precios(catalogo_json)
       IN  /\ precios' = st.precios
           /\ advertencias' = st.advertencias
    /\ codigo' = Raise("OSError")
    /\ pc' = "fin"
    /\ UNCHANGED <<entrada, salida, catalogo_json, ventas_json, idx, lineas,
                   errores, total_general, validos, invalidos, resultado,
                   archivo>>

\* lines 347-349
EjecutarCatalogo ==
    /\ pc = "inicio"
    /\ LET st == construir_catalogo_precios(catalogo_json)
       IN  /\ precios' = st.precios
           /\ advertencias' = st.advertencias
    /\ pc' = "procesar"
    /\ UNCHANGED <<entrada, salida, catalogo_json, ventas_json, idx, lineas,
                   errores, total_general, validos, invalidos, resultado,
                   archivo, codigo>>

\* mutant of ProcesarNoLista: the sales value is counted as one invalid record
ProcesarNoLista_CuentaInvalido ==
    /\ pc = "procesar"
    /\ ventas_json.t # "list"
    /\ resultado' = [t |-> "ret", reporte |-> REPORTE_ERROR, total |-> 0,
                     validos |-> 0, invalidos |-> 1]
    /\ pc' = "escribir"
    /\ UNCHANGED <<entrada, salida, catalogo_json, ventas_json, precios,
                   advertencias, idx, lineas, errores, total_general, validos,
                   invalidos, archivo, codigo>>

\* lines 201-212
ProcesarNoLista ==
    /\ pc = "procesar"
    /\ ventas_json.t # "list"
    /\ resultado' = [t |-> "ret", reporte |-> REPORTE_ERROR, total |-> 0,
                     validos |-> 0, invalidos |-> 0]
    /\ pc' = "escribir"
    /\ UNCHANGED <<entrada, salida, catalogo_json, ventas_json, precios,
                   advertencias, idx, lineas, errores, total_general, validos,
                   invalidos, archivo, codigo>>

\* lines 201-225, entering the loop
ProcesarEncabezado ==
    /\ pc = "procesar"
    /\ ventas_json.t = "list"
    /\ lineas' = <<"Compute Sales - Results",
                   "",
                   "Detalle de ventas (se omiten registros invalidos, pero se reportan):",
                   "",
                   TABLE_HEADER,
                   SEPARATOR_LINE>>
    /\ idx' = 1
    /\ pc' = "bucle"
    /\ UNCHANGED <<entrada, salida, catalogo_json, ventas_json, precios,
                   advertencias, errores, total_general, validos, invalidos,
                   resultado, archivo, codigo>>

Paso == ProcesarRegistro(idx, ventas_json.items[idx], precios)

\* mutant of ProcesarInvalido: the error is recorded but not counted
ProcesarInvalido_SinContar ==
    /\ pc = "bucle"
    /\ idx <= Len(ventas_json.items)
    /\ ProcesarRegistro(idx, ventas_json.items[idx], precios).t = "invalido"
    /\ errores' = Append(errores,
                    ProcesarRegistro(idx, ventas_json.items[idx], precios).error)
    /\ idx' = idx + 1
    /\ UNCHANGED <<pc, entrada, salida, catalogo_json, ventas_json, precios,
                   advertencias, lineas, total_general, validos, invalidos,
                   resultado, archivo, codigo>>

\* lines 225-231
ProcesarInvalido ==
    /\ pc = "bucle"
    /\ idx <= Len(ventas_json.items)
    /\ Paso.t = "invalido"
    /\ invalidos' = invalidos + 1
    /\ errores' = Append(errores, Paso.error)
    /\ idx' = idx + 1
    /\ UNCHANGED <<pc, entrada, salida, catalogo_json, ventas_json, precios,
                   advertencias, lineas, total_general, validos, resultado,
                   archivo, codigo>>

\* lines 225-251
ProcesarValido ==
    /\ pc = "bucle"
    /\ idx <= Len(ventas_json.items)
    /\ Paso.t = "valido"
    /\ lineas' = Append(lineas, Paso.fila.linea)
    /\ total_general' = total_general + Paso.fila.total_linea
    /\ validos' = validos + 1
    /\ idx' = idx + 1
    /\ UNCHANGED <<pc, entrada, salida, catalogo_json, ventas_json, precios,
                   advertencias, errores, invalidos, resultado, archivo,
                   codigo>>

\* lines 225-240, an exception: it leaves procesar_ventas and ejecutar
ProcesarExcepcion ==
    /\ pc = "bucle"
    /\ idx <= Len(ventas_json.items)
    /\ IsRaise(Paso)
    /\ resultado' = Paso
    /\ codigo' = Paso
    /\ pc' = "fin"
    /\ UNCHANGED <<entrada, salida, catalogo_json, ventas_json, precios,
                   advertencias, idx, lineas, errores, total_general, validos,
                   invalidos, archivo>>

\* lines 253-276
ProcesarRetorno ==
    /\ pc = "bucle"
    /\ idx > Len(ventas_json.items)
    /\ lineas' =
          lineas
          \o <<"",
               SEPARATOR_LINE,
               "Valid records: " \o ToString(validos),
               "Invalid records: " \o ToString(invalidos),
               "Total cost: " \o formatear_moneda(total_general),
               "">>
          \o (IF errores # <<>>
              THEN <<"Errores detectados (la ejecucion continuo):", SEPARATOR_LINE>>
                   \o [i \in 1..Len(errores) |->
                         "[#" \o ToString(errores[i].indice) \o "] "
                              \o errores[i].mensaje]
                   \o <<"">>
              ELSE <<>>)
    /\ resultado' = [t |-> "ret", reporte |-> Join("\n", lineas'),
                     total |-> total_general, validos |-> validos,
                     invalidos |-> invalidos]
    /\ pc' = "escribir"
    /\ UNCHANGED <<entrada, salida, catalogo_json, ventas_json, precios,
                   advertencias, idx, errores, total_general, validos,
                   invalidos, archivo, codigo>>

ReporteFinal ==
    IF construir_bloque_advertencias(advertencias) # ""
    THEN construir_bloque_advertencias(advertencias) \o resultado.reporte
    ELSE resultado.reporte

\* lines 352-371
EscribirOK ==
    /\ pc = "escribir"
    /\ archivo' = [t |-> "file", text |-> ReporteFinal]
    /\ codigo' = PyInteger(0)
    /\ pc' = "fin"
    /\ UNCHANGED <<entrada, salida, catalogo_json, ventas_json, precios,
                   advertencias, idx, lineas, errores, total_general, validos,
                   invalidos, resultado>>

\* lines 360-365: the write raises OSError
EscribirFalla ==
    /\ pc = "escribir"
    /\ archivo' = Raise("OSError")
    /\ codigo' = PyInteger(1)
    /\ pc' = "fin"
    /\ UNCHANGED <<entrada, salida, catalogo_json, ventas_json, precios,
                   advertencias, idx, lineas, errores, total_general, validos,
                   invalidos, resultado>>

Next ==
    \/ EjecutarUso
    \/ EjecutarCargaFalla
    \/ EjecutarCarpetaFalla
    \/ EjecutarCatalogo
    \/ ProcesarNoLista
    \/ ProcesarEncabezado
    \/ ProcesarInvalido
    \/ ProcesarValido
    \/ ProcesarExcepcion
    \/ ProcesarRetorno
    \/ EscribirOK
    \/ EscribirFalla

Spec == Init /\ [][Next]_vars

----------------------------------------------------------------------------
(* Claims about obtener_int (SpecInt) *)

ValorInt == Get(entrada, "Quantity")

\* C4: obtener_int returns None for every bool, the value itself for an int,
\* the parsed integer for a string made only of decimal digits, and None for
\* every other value (floats, strings with any other character, missing keys).
C4_ObtenerIntContrato ==
    pc = "int_fin" =>
        IF ValorInt.t = "bool" THEN salida = PyNone
        ELSE IF ValorInt.t = "int" THEN salida = ValorInt
        ELSE IF ValorInt.t = "str" /\ AllDecimal(ValorInt.s)
             THEN salida = PyInteger(DecimalValue(ValorInt.s))
        ELSE salida = PyNone

----------------------------------------------------------------------------
(* Claims about validar_registro_venta (SpecVal) *)

ProductoVal == obtener_str(entrada.raw, "Product")

\* the six problems of a dict record, in the order of the checks
Candidatos ==
    <<"SALE_ID invalido o faltante",
      "SALE_Date invalido o faltante",
      "Product invalido o faltante",
      "Quantity invalido o faltante",
      "Quantity no puede ser negativa",
      "Producto no existe en catalogo: '"
          \o (IF ProductoVal = PyNone THEN "" ELSE Flat(ProductoVal.s)) \o "'">>

Posicion(m) == CHOOSE j \in 1..6 : Candidatos[j] = m

Reportado(j) == \E i \in 1..Len(salida.problemas) : salida.problemas[i] = Candidatos[j]

\* What holds of every value validar_registro_venta returns.
C7_OrdenCuandoRetorna ==
    (pc = "val_fin" /\ salida.t = "ret") =>
        IF entrada.raw.t # "dict"
        THEN /\ salida.problemas = <<"Registro no es un objeto JSON (dict).">>
             /\ salida.registro = PyNone
        ELSE LET P == salida.problemas
                 cantidad == obtener_int(entrada.raw, "Quantity")
             IN  /\ \A i \in 1..Len(P) : \E j \in 1..6 : P[i] = Candidatos[j]
                 /\ \A i, k \in 1..Len(P) :
                        i < k => Posicion(P[i]) < Posicion(P[k])
                 /\ Reportado(1) <=> obtener_int(entrada.raw, "SALE_ID") = PyNone
                 /\ Reportado(2) <=> obtener_str(entrada.raw, "SALE_Date") = PyNone
                 /\ Reportado(3) <=> ProductoVal = PyNone
                 /\ Reportado(4) <=> cantidad = PyNone
                 /\ Reportado(5) <=> (cantidad # PyNone /\ cantidad.n < 0)
                 /\ ~(Reportado(4) /\ Reportado(5))
                 /\ Reportado(6) <=>
                        (ProductoVal # PyNone
                            /\ ProductoVal.s \notin DOMAIN entrada.precios)
                 /\ Reportado(6) => ~Reportado(3)

\* C7: a record that is not an object yields exactly one problem and nothing
\* else is checked; for every other record each of the four fields is checked
\* whatever the others gave and a list of problems is returned, in the order
\* SALE_ID, SALE_Date, Product, Quantity missing, Quantity negative, Product
\* not in catalogue, where the two Quantity problems exclude each other and
\* the catalogue problem is reported only for a Product that was extracted.
C7_ProblemasEnOrden ==
    /\ pc = "val_fin" => salida.t = "ret"
    /\ C7_OrdenCuandoRetorna

----------------------------------------------------------------------------
(* Claims about construir_catalogo_precios (SpecCat) *)

ElementoActual == catalogo_json.items[idx]

TituloValido(item) ==
    /\ item.t = "dict"
    /\ Get(item, "title").t = "str"
    /\ \E i \in 1..Len(Get(item, "title").s) : Get(item, "title").s[i] # " "

\* C5: an object with a valid title whose price is not an integer or a
\* floating-point number, or is a boolean, is skipped: one warning is added
\* and the price lookup is left as it was.
C5_PrecioInvalidoOmitido ==
    [][(/\ pc = "cat_bucle"
        /\ idx <= Len(catalogo_json.items)
        /\ TituloValido(ElementoActual)
        /\ Get(ElementoActual, "price").t \notin {"int", "float"})
       => (/\ Len(advertencias') = Len(advertencias) + 1
           /\ precios' = precios)]_vars

BienFormado(item) ==
    /\ TituloValido(item)
    /\ Get(item, "price").t \in {"int", "float"}

CatalogoBienFormado ==
    /\ catalogo_json.t = "list"
    /\ \A i \in 1..Len(catalogo_json.items) : BienFormado(catalogo_json.items[i])

TituloDe(i) == strip(Get(catalogo_json.items[i], "title").s)

\* C9: for a catalogue that is a list of well-formed {title, price} objects
\* the function returns no warning and a lookup whose keys are exactly the
\* distinct trimmed titles, each with the price of its last occurrence.
C9_CatalogoBienFormado ==
    (pc = "cat_fin" /\ CatalogoBienFormado) =>
        LET n == Len(catalogo_json.items)
        IN  /\ salida.advertencias = <<>>
            /\ DOMAIN salida.precios = {TituloDe(i) : i \in 1..n}
            /\ \A i \in 1..n :
                  (\A k \in (i + 1)..n : TituloDe(k) # TituloDe(i))
                  => salida.precios[TituloDe(i)]
                        = PyFloatOf(Get(catalogo_json.items[i], "price"))

\* two entries whose titles are equal once trimmed, with different prices
C9_Witness ==
    /\ pc = "cat_fin" /\ CatalogoBienFormado
    /\ Len(catalogo_json.items) = 2
    /\ Get(catalogo_json.items[1], "title") # Get(catalogo_json.items[2], "title")
    /\ TituloDe(1) = TituloDe(2)
    /\ salida.precios[TituloDe(1)] = 2000
    /\ Get(catalogo_json.items[1], "price") = PyInteger(10)

----------------------------------------------------------------------------
(* Claims about procesar_ventas and ejecutar (Spec) *)

Registros == ventas_json.items

Validacion(i) == validar_registro_venta(i, Registros[i], precios)

SinProblemas(i) == Validacion(i).t = "ret" /\ Validacion(i).problemas = <<>>
ConProblemas(i) == Validacion(i).t = "ret" /\ Validacion(i).problemas # <<>>

\* procesar_ventas entered its loop; records 1..idx-1 have been processed
EnBucle == ventas_json.t = "list" /\ idx >= 1

IndicesDeError == {errores[j].indice : j \in 1..Len(errores)}

\* how many of the records 1..i have no problem
ValidosHasta(i) == Cardinality({k \in 1..i : SinProblemas(k)})

\* C1: a record for which validar_registro_venta returns no problem can have
\* its four fields read again and its price looked up without an exception,
\* so procesar_ventas always returns a result.
C1_ReextraccionSinExcepcion ==
    /\ (pc = "bucle" /\ idx <= Len(Registros) /\ SinProblemas(idx))
          => ~IsRaise(ExtraerVenta(Validacion(idx).registro, precios))
    /\ ~IsRaise(resultado)

\* C2: after any prefix of k records validos + invalidos = k, each processed
\* record was counted either as valid (with a report line) or as invalid
\* (with one ErrorRegistro), never both and never neither, and the two counts
\* returned add up to the length of the sales list.
C2_CadaRegistroUnaVez ==
    EnBucle =>
        /\ validos + invalidos = idx - 1
        /\ \A i \in 1..(idx - 1) : (i \in IndicesDeError) # SinProblemas(i)
        /\ invalidos = Len(errores)
        /\ invalidos = Cardinality(IndicesDeError)
        /\ validos = ValidosHasta(idx - 1)
        /\ pc = "bucle" => Len(lineas) = 6 + validos
        /\ resultado.t = "ret" =>
              resultado.validos + resultado.invalidos = Len(Registros)

C2_Witness ==
    /\ EnBucle /\ resultado.t = "ret"
    /\ Len(Registros) = 3 /\ resultado.validos = 2 /\ resultado.invalidos = 1

RECURSIVE SumaValidos(_)
SumaValidos(i) ==
    IF i = 0 THEN 0
    ELSE SumaValidos(i - 1)
         + (IF SinProblemas(i)
            THEN precios[obtener_str(Registros[i], "Product").s]
                    * obtener_int(Registros[i], "Quantity").n
            ELSE 0)

\* C3: the total returned is the sum of precios[Product] * Quantity over
\* exactly the records validar_registro_venta finds no problem in; records
\* with problems add nothing.
C3_TotalEsSuma ==
    EnBucle =>
        /\ total_general = SumaValidos(idx - 1)
        /\ resultado.t = "ret" => resultado.total = SumaValidos(Len(Registros))

C3_Witness ==
    /\ EnBucle /\ resultado.t = "ret"
    /\ resultado.invalidos = 1 /\ resultado.validos = 2
    /\ resultado.total = 5000

\* C6 as stated: a sales value that is not a list gives exactly the two-line
\* error message as report, total 0, 0 valid and 0 invalid records, without
\* any record being validated; the report is still written and ejecutar
\* returns 0.
C6_VentasNoLista ==
    ventas_json.t # "list" =>
        /\ idx = 0 /\ lineas = <<>> /\ errores = <<>>
        /\ validos = 0 /\ invalidos = 0 /\ total_general = 0
        /\ pc \in {"escribir", "fin"} /\ resultado # PyNone =>
            resultado =
              [t |-> "ret",
               reporte |-> "ERROR: El archivo de ventas no contiene una lista de registros.\nNo se puede procesar.\n",
               total |-> 0, validos |-> 0, invalidos |-> 0]
        /\ pc = "fin" /\ resultado # PyNone =>
            /\ codigo = PyInteger(0)
            /\ archivo.t = "file"

\* C6 as amended: the same result of procesar_ventas; ejecutar then writes
\* the catalogue warnings block followed by that message and returns 0,
\* unless the write itself raises OSError, and then it returns 1.
C6_VentasNoListaSalvoEscritura ==
    ventas_json.t # "list" =>
        /\ idx = 0 /\ lineas = <<>> /\ errores = <<>>
        /\ validos = 0 /\ invalidos = 0 /\ total_general = 0
        /\ pc \in {"escribir", "fin"} /\ resultado # PyNone =>
            resultado =
              [t |-> "ret",
               reporte |-> "ERROR: El archivo de ventas no contiene una lista de registros.\nNo se puede procesar.\n",
               total |-> 0, validos |-> 0, invalidos |-> 0]
        /\ pc = "fin" /\ resultado # PyNone =>
            \/ /\ codigo = PyInteger(0)
               /\ archivo.t = "file"
               /\ archivo.text =
                    construir_bloque_advertencias(advertencias)
                    \o "ERROR: El archivo de ventas no contiene una lista de registros.\nNo se puede procesar.\n"
            \/ /\ codigo = PyInteger(1)
               /\ archivo = Raise("OSError")

C6_Witness ==
    /\ ventas_json.t # "list" /\ pc = "fin"
    /\ codigo = PyInteger(0) /\ archivo.t = "file"
    /\ resultado.t = "ret" /\ advertencias # <<>>

LineaDe(i) == ProcesarRegistro(i, Registros[i], precios).fila.linea

\* What holds of the records processed so far, and of a run that returns.
C8_OrdenCuandoRetorna ==
    EnBucle =>
        /\ IndicesDeError = {i \in 1..(idx - 1) : ConProblemas(i)}
        /\ \A j \in 1..Len(errores) :
              errores[j].mensaje = Join("; ", Validacion(errores[j].indice).problemas)
        /\ \A j, k \in 1..Len(errores) :
              j < k => errores[j].indice < errores[k].indice
        /\ \A i \in 1..(idx - 1) :
              SinProblemas(i) => lineas[6 + ValidosHasta(i)] = LineaDe(i)
        /\ resultado.t = "ret" =>
              /\ idx = Len(Registros) + 1
              /\ errores # <<>> =>
                    /\ lineas[Len(lineas)] = ""
                    /\ \A j \in 1..Len(errores) :
                          lineas[Len(lineas) - 1 - Len(errores) + j]
                            = "[#" \o ToString(errores[j].indice) \o "] "
                                \o errores[j].mensaje

\* C8: every record of the sales list is processed however many earlier ones
\* were invalid (procesar_ventas ends only after the last record); the lines
\* of the valid records are in input order, the errors are in the order met,
\* with strictly increasing indices, each index being the 1-based position of
\* its record in the input list.
C8_OrdenDeEntrada ==
    /\ (EnBucle /\ pc = "fin") => idx = Len(Registros) + 1
    /\ C8_OrdenCuandoRetorna

\* C10: for a record without problems the SALE_ID, SALE_Date, Product and
\* Quantity in the report line and in the price lookup are the values
\* obtener_int and obtener_str returned (trimmed strings, parsed integers).
C10_ValoresExtraidos ==
    EnBucle =>
        \A i \in 1..(idx - 1) :
            SinProblemas(i) =>
                lineas[6 + ValidosHasta(i)] =
                    crear_linea_tabla(
                        obtener_int(Registros[i], "SALE_ID").n,
                        obtener_str(Registros[i], "SALE_Date").s,
                        obtener_str(Registros[i], "Product").s,
                        obtener_int(Registros[i], "Quantity").n,
                        precios[obtener_str(Registros[i], "Product").s]).linea

====
